---- MODULE Spec2Model ----
(***************************************************************************)
(* Model of src/templates/template-vision-segmentation/main.py: a          *)
(* code-generation template.  The template is rendered from the            *)
(* generation flags `it` (the #::: ... :::# directives), and the rendered  *)
(* script is then executed by one process: main() -> idist.Parallel ->     *)
(* run(local_rank, config) -> trainer.run with its event handlers.         *)
(***************************************************************************)
EXTENDS Integers, Sequences, FiniteSets, TLC

\* ------------------------------------------------------------- bounds
MaxEpochs == 3
MaxTrainLen == 2
MaxEvalLen == 3

\* ------------------------------------------------------------- values
None == "None"
Unbound == "Unbound"
Obj == "obj"

\* keys of the mapping built at lines 87-92
TrainKeys == {"model", "optimizer", "trainer", "lr_scheduler"}
\* keys of the mapping built at line 98
EvalKeys == {"model"}

\* ------------------------------------------------------------- template
Dir(d, c) == [d |-> d, c |-> c, k |-> "", s |-> ""]
Stmt(k, s) == [d |-> "stmt", c |-> "", k |-> k, s |-> s]

\* The body of run(), lines 20-208.  k = "S": a statement of run();
\* k = "H": a statement of the EPOCH_COMPLETED handler defined at 158-168.
RunTemplate ==
  << Stmt("S", "get_rank"),
     Stmt("S", "setup_output_dir"),
     Stmt("S", "setup_data"),
     Stmt("S", "model_optim"),
     Stmt("S", "metrics"),
     Stmt("S", "engines"),
     Stmt("S", "setup_logging"),
     Stmt("S", "write_config_lock"),
     Stmt("S", "def_set_epoch"),
     Dir("if", "handlers"),
       Dir("if", "save_training"),
         Stmt("S", "to_save_train_dict"),
       Dir("else", ""),
         Stmt("S", "to_save_train_none"),
       Dir("end", ""),
       Dir("if", "save_evaluation"),
         Stmt("S", "to_save_eval_dict"),
       Dir("else", ""),
         Stmt("S", "to_save_eval_none"),
       Dir("end", ""),
       Stmt("S", "setup_handlers"),
     Dir("end", ""),
     Dir("if", "logger"),
       Stmt("S", "exp_logging"),
     Dir("end", ""),
     Stmt("S", "add_log_metrics_train"),
     Stmt("S", "def_epoch_completed"),
     Dir("if", "handlers"),
       Stmt("H", "timer_report"),
     Dir("end", ""),
     Stmt("H", "evaluator_run"),
     Stmt("H", "log_metrics_eval"),
     Stmt("S", "def_started"),
     Stmt("S", "trainer_run"),
     Dir("if", "logger"),
       Stmt("S", "close_logger"),
     Dir("end", ""),
     Dir("if", "handlers"),
       Stmt("S", "last_ckpt_train"),
       Stmt("S", "last_ckpt_eval"),
     Dir("end", "") >>

\* The body of main(), lines 212-232.  k = "M".
MainTemplate ==
  << Stmt("M", "parse_args"),
     Stmt("M", "download_datasets"),
     Dir("if", "spawn"),
       Dir("if", "multinode"),
         Stmt("M", "kwargs_multi"),
       Dir("elif", "nproc"),
         Stmt("M", "kwargs_single"),
       Dir("end", ""),
       Stmt("M", "parallel_kwargs"),
     Dir("else", ""),
       Stmt("M", "parallel_backend"),
     Dir("end", "") >>

Template == RunTemplate \o MainTemplate

\* Mutant: the condition without limit_sec.
HandlersCond_no_limit(f) ==
  f.save_training \/ f.save_evaluation \/ f.patience
    \/ f.terminate_on_nan \/ f.timer

\* The six-flag condition of lines 84, 161 and 196.
HandlersCond(f) ==
  f.save_training \/ f.save_evaluation \/ f.patience
    \/ f.terminate_on_nan \/ f.timer \/ f.limit_sec

\* Mutant: nnodes compared with 0 instead of 1.
MultiNodeCond_any_nnodes(f) ==
  f.nproc_per_node # 0 /\ f.nnodes > 0 /\ f.master_addr /\ f.master_port

\* The condition of line 216.
MultiNodeCond(f) ==
  f.nproc_per_node # 0 /\ f.nnodes > 1 /\ f.master_addr /\ f.master_port

\* The value of a directive's condition under the flags f.
EvalCond(c, f) ==
  CASE c = "handlers" -> HandlersCond(f)
    [] c = "save_training" -> f.save_training
    [] c = "save_evaluation" -> f.save_evaluation
    [] c = "logger" -> f.logger
    [] c = "spawn" -> f.dist = "spawn"
    [] c = "multinode" -> MultiNodeCond(f)
    [] c = "nproc" -> f.nproc_per_node # 0
    [] OTHER -> FALSE

\* One frame per open `if`: on = the current branch is emitted,
\* taken = some branch of this `if` has been emitted already.
Emitting(stack) == \A j \in 1..Len(stack) : stack[j].on

Retop(stack, fr) == [stack EXCEPT ![Len(stack)] = fr]

RECURSIVE RenderFrom(_, _, _, _)
RenderFrom(i, stack, out, f) ==
  IF i > Len(Template) THEN out
  ELSE
    LET t == Template[i]
        top == stack[Len(stack)]
    IN CASE t.d = "if" ->
              LET c == EvalCond(t.c, f)
              IN RenderFrom(i + 1, Append(stack, [on |-> c, taken |-> c]), out, f)
         [] t.d = "elif" ->
              LET c == ~top.taken /\ EvalCond(t.c, f)
              IN RenderFrom(i + 1,
                            Retop(stack, [on |-> c, taken |-> top.taken \/ c]),
                            out, f)
         [] t.d = "else" ->
              RenderFrom(i + 1,
                         Retop(stack, [on |-> ~top.taken, taken |-> TRUE]),
                         out, f)
         [] t.d = "end" ->
              RenderFrom(i + 1, SubSeq(stack, 1, Len(stack) - 1), out, f)
         [] OTHER ->
              RenderFrom(i + 1, stack,
                         IF Emitting(stack)
                           THEN Append(out, [k |-> t.k, s |-> t.s])
                           ELSE out,
                         f)

Render(f) == RenderFrom(1, <<>>, <<>>, f)

Body(scr, k) == SelectSeq(scr, LAMBDA x : x.k = k)

Labels(scr, k) == {scr[j].s : j \in {n \in 1..Len(scr) : scr[n].k = k}}

\* ------------------------------------------------------------- inputs
\* config.eval_epoch_length = None (epoch_length=None at lines 167, 173)
NoLength == 0

\* nproc_per_node not given to the generator (falsy at lines 216, 224)
NoProcs == 0

Flags ==
  [ save_training : BOOLEAN, save_evaluation : BOOLEAN, patience : BOOLEAN,
    terminate_on_nan : BOOLEAN, timer : BOOLEAN, limit_sec : BOOLEAN,
    logger : BOOLEAN, dist : {"spawn", "torchrun"},
    nproc_per_node : {NoProcs, 2}, nnodes : {1, 2},
    master_addr : BOOLEAN, master_port : BOOLEAN ]

\* What the collaborators hand to the script: the parsed options, the process
\* group, the data loaders, and the objects setup_handlers and
\* setup_exp_logging return.
Envs ==
  [ max_epochs : 1..MaxEpochs,
    train_epoch_length : 1..MaxTrainLen,
    eval_epoch_length : {NoLength} \cup (1..MaxEvalLen),
    len_eval : 1..MaxEvalLen,
    world_size : {1, 2}, rank : {0, 1},
    sampler : {"DistributedSampler", "RandomSampler"},
    ckpt_train : {None, Obj}, ckpt_eval : {None, Obj}, timer : {None, Obj},
    logger_kind : {"WandBLogger", "OtherLogger", "Falsy"} ]

\* ------------------------------------------------------------- state
VARIABLES
  it,            \* the generation flags
  script,        \* the rendered script
  env,           \* what the collaborators return
  pc, midx, ridx,
  config,        \* the parsed options (line 213)
  kwargs,        \* main's kwargs (lines 217-225)
  parallel,      \* the parameters of each idist.Parallel call
  rank,          \* run's rank (line 23)
  output_dir,    \* config.output_dir has been set (line 27)
  sampler_epochs,\* the arguments of sampler.set_epoch, in order
  to_save_train, to_save_eval,
  handlers_call, \* the arguments of each setup_handlers call
  ckpt_handler_train, ckpt_handler_eval, timer,
  exp_logger,
  attached,      \* the image handler is attached to the evaluator
  handlers_on,   \* the handlers registered on the trainer
  trainer,       \* trainer.state
  evaluator,     \* evaluator.state
  eval_from,     \* the handler that called evaluator.run
  eval_runs,     \* completed evaluator runs
  img_log,       \* <<trainer epoch, evaluator iteration>> of each logged image batch
  img_this_run,  \* images logged in the current evaluator run
  events,        \* the calls made so far, in order
  terminated,    \* a handler terminated the trainer early
  err            \* the exception that left the script

genVars == <<it, script, env>>
ctlVars == <<pc, midx, ridx>>
mainVars == <<config, kwargs, parallel>>
setupVars == <<rank, output_dir, to_save_train, to_save_eval, handlers_call,
               ckpt_handler_train, ckpt_handler_eval, timer, exp_logger, attached,
               handlers_on>>
engVars == <<trainer, evaluator, eval_from, eval_runs, img_log, img_this_run,
             sampler_epochs, terminated>>
vars == <<genVars, ctlVars, mainVars, setupVars, engVars, events, err>>

NoErr == [kind |-> "", at |-> ""]

\* The state before the template is rendered.  A name that holds a mapping
\* (kwargs, to_save_train, to_save_eval) is {Unbound} until it is assigned.

InitWith(f, e) ==
  /\ it = f
  /\ env = e
  /\ script = <<>>
  /\ pc = "generate"
  /\ midx = 1
  /\ ridx = 1
  /\ config = [max_epochs |-> 0, train_epoch_length |-> 0, eval_epoch_length |-> 0]
  /\ kwargs = {Unbound}
  /\ parallel = <<>>
  /\ rank = -1
  /\ output_dir = FALSE
  /\ sampler_epochs = <<>>
  /\ to_save_train = {Unbound}
  /\ to_save_eval = {Unbound}
  /\ handlers_call = <<>>
  /\ ckpt_handler_train = Unbound
  /\ ckpt_handler_eval = Unbound
  /\ timer = Unbound
  /\ exp_logger = Unbound
  /\ attached = FALSE
  /\ handlers_on = {}
  /\ trainer = [epoch |-> 0, iteration |-> 0]
  /\ evaluator = [iteration |-> 0]
  /\ eval_from = ""
  /\ eval_runs = 0
  /\ img_log = {}
  /\ img_this_run = 0
  /\ events = <<>>
  /\ terminated = FALSE
  /\ err = NoErr

\* ------------------------------------------------------------- control
MainBody == Body(script, "M")
RunBody == Body(script, "S")
HandlerBody == Labels(script, "H")

CurM == IF pc = "main" /\ midx <= Len(MainBody) THEN MainBody[midx].s ELSE ""
CurS == IF pc = "run" /\ ridx <= Len(RunBody) THEN RunBody[ridx].s ELSE ""

Did(es) == events' = events \o es

\* An exception leaves the script: nothing catches it.
Raise(kind, at) ==
  /\ pc' = "raised"
  /\ err' = [kind |-> kind, at |-> at]
  /\ UNCHANGED <<midx, ridx>>

NextM == midx' = midx + 1 /\ UNCHANGED <<pc, ridx, err>>
NextS == ridx' = ridx + 1 /\ UNCHANGED <<pc, midx, err>>

\* ------------------------------------------------------------- generation
Generate ==
  /\ pc = "generate"
  /\ script' = Render(it)
  /\ pc' = "main"
  /\ UNCHANGED <<it, env, midx, ridx, mainVars, setupVars, engVars, events, err>>

\* ------------------------------------------------------------- main()
ParseArgs ==
  /\ CurM = "parse_args"
  /\ config' = [max_epochs |-> env.max_epochs,
                train_epoch_length |-> env.train_epoch_length,
                eval_epoch_length |-> env.eval_epoch_length]
  /\ Did(<<"parse_args">>)
  /\ NextM
  /\ UNCHANGED <<genVars, kwargs, parallel, setupVars, engVars>>

DownloadDatasets ==
  /\ CurM = "download_datasets"
  /\ Did(<<"download_datasets">>)
  /\ NextM
  /\ UNCHANGED <<genVars, mainVars, setupVars, engVars>>

KwargsMulti ==
  /\ CurM = "kwargs_multi"
  /\ kwargs' = {"nproc_per_node", "nnodes", "node_rank", "master_addr", "master_port"}
  /\ Did(<<"kwargs">>)
  /\ NextM
  /\ UNCHANGED <<genVars, config, parallel, setupVars, engVars>>

KwargsSingle ==
  /\ CurM = "kwargs_single"
  /\ kwargs' = {"nproc_per_node"}
  /\ Did(<<"kwargs">>)
  /\ NextM
  /\ UNCHANGED <<genVars, config, parallel, setupVars, engVars>>

\* with idist.Parallel(...) as p: p.run(run, config=config) -- enters run().
Launch(params) ==
  /\ parallel' = Append(parallel, params)
  /\ Did(<<"Parallel", "run">>)
  /\ pc' = "run"
  /\ ridx' = 1
  /\ UNCHANGED <<midx, err>>

ParallelKwargs ==
  /\ CurM = "parallel_kwargs"
  /\ IF kwargs = {Unbound}
       THEN Raise("NameError", "kwargs") /\ UNCHANGED <<parallel, events>>
       ELSE Launch({"backend"} \cup kwargs)
  /\ UNCHANGED <<genVars, config, kwargs, setupVars, engVars>>

ParallelBackend ==
  /\ CurM = "parallel_backend"
  /\ Launch({"backend"})
  /\ UNCHANGED <<genVars, config, kwargs, setupVars, engVars>>

RunReturn ==
  /\ pc = "run"
  /\ ridx > Len(RunBody)
  /\ pc' = "main"
  /\ midx' = midx + 1
  /\ Did(<<"run_returned">>)
  /\ UNCHANGED <<genVars, ridx, mainVars, setupVars, engVars, err>>

MainReturn ==
  /\ pc = "main"
  /\ midx > Len(MainBody)
  /\ pc' = "done"
  /\ UNCHANGED <<genVars, midx, ridx, mainVars, setupVars, engVars, events, err>>

\* ------------------------------------------------------------- run(): setup
\* lines 23-24
GetRank ==
  /\ CurS = "get_rank"
  /\ rank' = env.rank
  /\ Did(<<"get_rank">>)
  /\ NextS
  /\ UNCHANGED <<genVars, mainVars, output_dir, to_save_train, to_save_eval,
                 handlers_call, ckpt_handler_train, ckpt_handler_eval, timer,
                 exp_logger, attached, handlers_on, engVars>>

\* line 27
SetupOutputDir ==
  /\ CurS = "setup_output_dir"
  /\ output_dir' = TRUE
  /\ Did(<<"setup_output_dir">>)
  /\ NextS
  /\ UNCHANGED <<genVars, mainVars, rank, to_save_train, to_save_eval,
                 handlers_call, ckpt_handler_train, ckpt_handler_eval, timer,
                 exp_logger, attached, handlers_on, engVars>>

\* lines 30-66 and 70-71: calls whose results only later calls consume
ConstructStmts == {"setup_data", "model_optim", "metrics", "engines", "setup_logging"}

Construct ==
  /\ CurS \in ConstructStmts
  /\ Did(<<CurS>>)
  /\ NextS
  /\ UNCHANGED <<genVars, mainVars, setupVars, engVars>>

\* Mutant: only rank 0 writes the file.
WriteConfigLock_rank0 ==
  /\ CurS = "write_config_lock"
  /\ IF output_dir
       THEN Did(IF rank = 0 THEN <<"write_config_lock">> ELSE <<>>) /\ NextS
       ELSE Raise("AttributeError", "output_dir") /\ UNCHANGED events
  /\ UNCHANGED <<genVars, mainVars, setupVars, engVars>>

\* lines 72-73: (config.output_dir / "config-lock.yaml").write_text(...);
\* the path is built from the directory line 27 stored in config.
WriteConfigLock ==
  /\ CurS = "write_config_lock"
  /\ IF output_dir
       THEN Did(<<"write_config_lock">>) /\ NextS
       ELSE Raise("AttributeError", "output_dir") /\ UNCHANGED events
  /\ UNCHANGED <<genVars, mainVars, setupVars, engVars>>

\* lines 76-81, 147-151, 158-168, 171-173: handler registration
RegisterStmts ==
  {"def_set_epoch", "add_log_metrics_train", "def_epoch_completed", "def_started"}

Register ==
  /\ CurS \in RegisterStmts
  /\ handlers_on' = handlers_on \cup {CurS}
  /\ Did(<<CurS>>)
  /\ NextS
  /\ UNCHANGED <<genVars, mainVars, rank, output_dir, to_save_train, to_save_eval,
                 handlers_call, ckpt_handler_train, ckpt_handler_eval, timer,
                 exp_logger, attached, engVars>>

\* lines 87-92 / 94
ToSaveTrain ==
  /\ CurS \in {"to_save_train_dict", "to_save_train_none"}
  /\ to_save_train' = IF CurS = "to_save_train_dict" THEN TrainKeys ELSE {None}
  /\ Did(<<CurS>>)
  /\ NextS
  /\ UNCHANGED <<genVars, mainVars, rank, output_dir, to_save_eval,
                 handlers_call, ckpt_handler_train, ckpt_handler_eval, timer,
                 exp_logger, attached, handlers_on, engVars>>

\* lines 98 / 100
ToSaveEval ==
  /\ CurS \in {"to_save_eval_dict", "to_save_eval_none"}
  /\ to_save_eval' = IF CurS = "to_save_eval_dict" THEN EvalKeys ELSE {None}
  /\ Did(<<CurS>>)
  /\ NextS
  /\ UNCHANGED <<genVars, mainVars, rank, output_dir, to_save_train,
                 handlers_call, ckpt_handler_train, ckpt_handler_eval, timer,
                 exp_logger, attached, handlers_on, engVars>>

\* lines 103-105
SetupHandlers ==
  /\ CurS = "setup_handlers"
  /\ IF to_save_train = {Unbound} \/ to_save_eval = {Unbound}
       THEN /\ Raise("NameError", "to_save")
            /\ UNCHANGED <<handlers_call, ckpt_handler_train, ckpt_handler_eval,
                           timer, events>>
       ELSE /\ handlers_call' =
                 Append(handlers_call,
                        [to_save_train |-> to_save_train, to_save_eval |-> to_save_eval])
            /\ ckpt_handler_train' = env.ckpt_train
            /\ ckpt_handler_eval' = env.ckpt_eval
            /\ timer' = env.timer
            /\ Did(<<"setup_handlers">>)
            /\ NextS
  /\ UNCHANGED <<genVars, mainVars, rank, output_dir, to_save_train, to_save_eval,
                 exp_logger, attached, handlers_on, engVars>>

\* lines 110-140
ExpLogging ==
  /\ CurS = "exp_logging"
  /\ IF rank = 0
       THEN /\ exp_logger' = env.logger_kind
            /\ attached' = TRUE
            /\ Did(<<"setup_exp_logging", "attach">>)
       ELSE /\ UNCHANGED <<exp_logger, attached>>
            /\ Did(<<>>)
  /\ NextS
  /\ UNCHANGED <<genVars, mainVars, rank, output_dir, to_save_train, to_save_eval,
                 handlers_call, ckpt_handler_train, ckpt_handler_eval, timer,
                 handlers_on, engVars>>

\* ------------------------------------------------------------- run(): engines
\* Mutant: the final epoch is not let through.
custom_event_filter_no_final(val_iteration, epoch, len_eval, max_epochs) ==
  LET c1 == val_iteration = len_eval \div 2
      c2 == epoch % 3 = 0
  IN c1 /\ c2

\* lines 118-122
custom_event_filter(val_iteration, epoch, len_eval, max_epochs) ==
  LET c1 == val_iteration = len_eval \div 2
      c2 == epoch % 3 = 0
      c3 == c2 \/ epoch = max_epochs
  IN c1 /\ c3

\* Mutant: the 1-based epoch is handed over.
set_epoch_current(epochs, world_size, sampler, epoch) ==
  IF world_size > 1 /\ sampler = "DistributedSampler"
    THEN Append(epochs, epoch)
    ELSE epochs

\* lines 77-81: the epochs handed to sampler.set_epoch so far
set_epoch(epochs, world_size, sampler, epoch) ==
  IF world_size > 1 /\ sampler = "DistributedSampler"
    THEN Append(epochs, epoch - 1)
    ELSE epochs

\* epoch_length=config.eval_epoch_length (lines 167, 173); None: the loader's length
EvalEpochLength ==
  IF config.eval_epoch_length = NoLength THEN env.len_eval
  ELSE config.eval_epoch_length

\* evaluator.run(dataloader_eval, ...) begins: a finished engine starts from 0
EvalStart(from) ==
  /\ evaluator' = [iteration |-> 0]
  /\ eval_from' = from
  /\ img_this_run' = 0
  /\ pc' = "eval"

\* lines 176-180
TrainerRun ==
  /\ CurS = "trainer_run"
  /\ pc' = "started"
  /\ trainer' = [epoch |-> 0, iteration |-> 0]
  /\ Did(<<"trainer_run">>)
  /\ UNCHANGED <<genVars, midx, ridx, mainVars, setupVars, evaluator, eval_from,
                 eval_runs, img_log, img_this_run, sampler_epochs, terminated, err>>

\* lines 171-173: the STARTED handler
Started ==
  /\ pc = "started"
  /\ IF "def_started" \in handlers_on
       THEN EvalStart("started") /\ Did(<<"eval_start">>)
       ELSE /\ pc' = "epoch_started"
            /\ UNCHANGED <<evaluator, eval_from, img_this_run, events>>
  /\ UNCHANGED <<genVars, midx, ridx, mainVars, setupVars, trainer, eval_runs,
                 img_log, sampler_epochs, terminated, err>>

\* One evaluator iteration and its ITERATION_COMPLETED handlers (lines 129-140).
EvalIteration ==
  /\ pc = "eval"
  /\ evaluator.iteration < EvalEpochLength
  /\ LET i == evaluator.iteration + 1
         fire == attached /\ custom_event_filter(i, trainer.epoch, env.len_eval,
                                                  config.max_epochs)
     IN /\ evaluator' = [iteration |-> i]
        /\ img_log' = IF fire THEN img_log \cup {<<trainer.epoch, i>>} ELSE img_log
        /\ img_this_run' = IF fire THEN img_this_run + 1 ELSE img_this_run
  /\ UNCHANGED <<genVars, ctlVars, mainVars, setupVars, trainer, eval_from,
                 eval_runs, sampler_epochs, terminated, events, err>>

\* evaluator.run returns to the handler that called it.
EvalCompleted ==
  /\ pc = "eval"
  /\ evaluator.iteration = EvalEpochLength
  /\ eval_runs' = eval_runs + 1
  /\ Did(<<"eval_end">>)
  /\ pc' = IF eval_from = "started" THEN "epoch_started" ELSE "handler_tail"
  /\ UNCHANGED <<genVars, midx, ridx, mainVars, setupVars, trainer, evaluator,
                 eval_from, img_log, img_this_run, sampler_epochs, terminated, err>>

\* EPOCH_STARTED and its handler set_epoch (lines 76-81)
EpochStarted ==
  /\ pc = "epoch_started"
  /\ trainer' = [trainer EXCEPT !.epoch = @ + 1]
  /\ sampler_epochs' =
       IF "def_set_epoch" \in handlers_on
         THEN set_epoch(sampler_epochs, env.world_size, env.sampler, trainer'.epoch)
         ELSE sampler_epochs
  /\ pc' = "iteration"
  /\ Did(<<"epoch_started">>)
  /\ UNCHANGED <<genVars, midx, ridx, mainVars, setupVars, evaluator, eval_from,
                 eval_runs, img_log, img_this_run, terminated, err>>

\* One training iteration.
Iteration ==
  /\ pc = "iteration"
  /\ trainer.iteration < trainer.epoch * config.train_epoch_length
  /\ trainer' = [trainer EXCEPT !.iteration = @ + 1]
  /\ UNCHANGED <<genVars, ctlVars, mainVars, setupVars, evaluator, eval_from,
                 eval_runs, img_log, img_this_run, sampler_epochs, terminated,
                 events, err>>

\* Mutant: the timer is reported without the `is not None` test.
TimerReport_no_none_check ==
  IF "timer_report" \in HandlerBody
    THEN <<"timer_value", "timer_reset">>
    ELSE <<>>

\* lines 162-164 as rendered: what the handler logs about the timer
TimerReport ==
  IF "timer_report" \in HandlerBody /\ timer # None
    THEN <<"timer_value", "timer_reset">>
    ELSE <<>>

\* lines 158-167: EPOCH_COMPLETED handler up to the call of evaluator.run
EpochCompleted ==
  /\ pc = "iteration"
  /\ trainer.iteration = trainer.epoch * config.train_epoch_length
  /\ IF "def_epoch_completed" \notin handlers_on
       THEN /\ pc' = IF trainer.epoch < config.max_epochs
                       THEN "epoch_started" ELSE "completed"
            /\ UNCHANGED <<evaluator, eval_from, img_this_run, events, err>>
       ELSE IF "timer_report" \in HandlerBody /\ timer = Unbound
         THEN /\ pc' = "raised"
              /\ err' = [kind |-> "NameError", at |-> "timer"]
              /\ UNCHANGED <<evaluator, eval_from, img_this_run, events>>
         ELSE /\ EvalStart("epoch_completed")
              /\ Did(<<"epoch_completed">> \o TimerReport \o <<"eval_start">>)
              /\ UNCHANGED err
  /\ UNCHANGED <<genVars, midx, ridx, mainVars, setupVars, trainer, eval_runs,
                 img_log, sampler_epochs, terminated>>

\* line 168, then the trainer goes on to the next epoch or completes
HandlerTail ==
  /\ pc = "handler_tail"
  /\ Did(<<"log_metrics_eval">>)
  /\ pc' = IF trainer.epoch < config.max_epochs THEN "epoch_started" ELSE "completed"
  /\ UNCHANGED <<genVars, midx, ridx, mainVars, setupVars, engVars, err>>

\* A handler installed by setup_handlers (early stopping, NaN, time limit)
\* terminates the trainer after an iteration: EPOCH_COMPLETED is not fired
\* and no further epoch is run.
Terminate ==
  /\ pc = "iteration"
  /\ timer # Unbound
  /\ it.patience \/ it.terminate_on_nan \/ it.limit_sec
  /\ trainer.iteration > (trainer.epoch - 1) * config.train_epoch_length
  /\ terminated' = TRUE
  /\ pc' = "completed"
  /\ Did(<<"terminate">>)
  /\ UNCHANGED <<genVars, midx, ridx, mainVars, setupVars, trainer, evaluator,
                 eval_from, eval_runs, img_log, img_this_run, sampler_epochs, err>>

\* trainer.run returns (line 180)
Completed ==
  /\ pc = "completed"
  /\ pc' = "run"
  /\ ridx' = ridx + 1
  /\ Did(<<"trainer_returned">>)
  /\ UNCHANGED <<genVars, midx, mainVars, setupVars, engVars, err>>

\* ------------------------------------------------------------- run(): teardown
\* Mutant: `if` instead of `elif` at line 191.
ShutdownCalls_both(logger) ==
  (IF logger = "WandBLogger" THEN <<"finish">> ELSE <<>>)
    \o (IF logger # "Falsy" THEN <<"close">> ELSE <<>>)

\* lines 187-192: the shutdown calls made on the experiment logger
ShutdownCalls(logger) ==
  IF logger = "WandBLogger" THEN <<"finish">>
  ELSE IF logger # "Falsy" THEN <<"close">>
  ELSE <<>>

\* lines 184-192
CloseLogger ==
  /\ CurS = "close_logger"
  /\ IF rank # 0
       THEN Did(<<>>) /\ NextS
       ELSE IF exp_logger = Unbound
         THEN Raise("NameError", "exp_logger") /\ UNCHANGED events
         ELSE Did(ShutdownCalls(exp_logger)) /\ NextS
  /\ UNCHANGED <<genVars, mainVars, setupVars, engVars>>

\* lines 197-207: one `if` per checkpoint handler
LastCkpt(label, handler) ==
  /\ CurS = label
  /\ IF handler = Unbound
       THEN Raise("NameError", label) /\ UNCHANGED events
       ELSE /\ Did(IF handler # None THEN <<label>> ELSE <<>>)
            /\ NextS
  /\ UNCHANGED <<genVars, mainVars, setupVars, engVars>>

LastCkptTrain == LastCkpt("last_ckpt_train", ckpt_handler_train)

LastCkptEval == LastCkpt("last_ckpt_eval", ckpt_handler_eval)

\* ------------------------------------------------------------- failures
\* The delegated calls: any of them may raise.
Fallible ==
  {"parse_args", "download_datasets", "setup_output_dir", "setup_data",
   "model_optim", "engines", "setup_logging", "write_config_lock",
   "setup_handlers", "exp_logging", "close_logger"}

FailingStep ==
  IF CurM \in Fallible THEN CurM
  ELSE IF CurS \in Fallible THEN CurS
  ELSE IF pc \in {"iteration", "eval"} THEN "trainer_run"
  ELSE ""

\* Mutant: a failure inside trainer.run is swallowed and run() goes on.
DelegateFails_swallowed ==
  /\ FailingStep # ""
  /\ pc' = IF pc \in {"iteration", "eval"} THEN "completed" ELSE "raised"
  /\ err' = [kind |-> "Error", at |-> FailingStep]
  /\ UNCHANGED <<midx, ridx, genVars, mainVars, setupVars, engVars, events>>

DelegateFails ==
  /\ FailingStep # ""
  /\ Raise("Error", FailingStep)
  /\ UNCHANGED <<genVars, mainVars, setupVars, engVars, events>>

\* ------------------------------------------------------------- specification
Next ==
  \/ Generate
  \/ ParseArgs \/ DownloadDatasets \/ KwargsMulti \/ KwargsSingle
  \/ ParallelKwargs \/ ParallelBackend \/ RunReturn \/ MainReturn
  \/ GetRank \/ SetupOutputDir \/ Construct \/ WriteConfigLock \/ Register
  \/ ToSaveTrain \/ ToSaveEval \/ SetupHandlers \/ ExpLogging
  \/ TrainerRun \/ Started \/ EvalIteration \/ EvalCompleted \/ EpochStarted
  \/ Iteration \/ EpochCompleted \/ HandlerTail \/ Terminate \/ Completed
  \/ CloseLogger \/ LastCkptTrain \/ LastCkptEval
  \/ DelegateFails

\* The generated projects whose training runs are explored: pre-launched with
\* no optional block, with experiment logging, with every handler flag, with
\* both; and each spawn variant of main() with no optional block.
AllHandlerFlags(f, b) ==
  /\ f.save_training = b /\ f.save_evaluation = b /\ f.patience = b
  /\ f.terminate_on_nan = b /\ f.timer = b /\ f.limit_sec = b

PreLaunched(f) ==
  /\ f.dist = "torchrun" /\ f.nproc_per_node = NoProcs /\ f.nnodes = 1
  /\ ~f.master_addr /\ ~f.master_port

SpawnVariant(f) ==
  /\ f.dist = "spawn"
  /\ f.master_addr = f.master_port
  /\ f.master_addr = (f.nnodes > 1)
  /\ (f.nproc_per_node = NoProcs) => f.nnodes = 1

RunFlags ==
  {f \in Flags :
     \/ PreLaunched(f) /\ (AllHandlerFlags(f, TRUE) \/ AllHandlerFlags(f, FALSE))
     \/ SpawnVariant(f) /\ AllHandlerFlags(f, FALSE) /\ ~f.logger}

\* The default training run, and the groups of inputs that vary around it.
DefaultEval(e) == e.len_eval = 2 /\ e.eval_epoch_length = NoLength
DefaultDist(e) == e.world_size = 2 /\ e.rank = 0 /\ e.sampler = "DistributedSampler"
DefaultHandlers(e) == e.ckpt_train = Obj /\ e.ckpt_eval = Obj /\ e.timer = Obj
DefaultLogger(e) == e.logger_kind = "WandBLogger"

Deviations(e) ==
  (IF DefaultEval(e) THEN 0 ELSE 1) + (IF DefaultDist(e) THEN 0 ELSE 1)
    + (IF DefaultHandlers(e) THEN 0 ELSE 1) + (IF DefaultLogger(e) THEN 0 ELSE 1)

\* Every epoch count and epoch length, with at most two of the four groups
\* away from the default at a time.
RunEnvs == {e \in Envs : Deviations(e) <= 2}

\* Inputs that cannot occur are left out: a rank outside the process group.
\* Returns of collaborators the rendered script never calls are fixed.
Feasible(f, e) ==
  /\ e.rank < e.world_size
  /\ (~HandlersCond(f)) => DefaultHandlers(e)
  /\ (~f.logger \/ e.rank # 0) => DefaultLogger(e)

Init == \E f \in RunFlags, e \in RunEnvs : Feasible(f, e) /\ InitWith(f, e)

Spec == Init /\ [][Next]_vars

\* Every combination of generation flags, under one small training run.
RenderEnvs ==
  {e \in Envs :
     /\ e.max_epochs = 1 /\ e.train_epoch_length = 1
     /\ e.eval_epoch_length = NoLength /\ e.len_eval = 2
     /\ e.world_size = 2 /\ e.sampler = "DistributedSampler"
     /\ e.ckpt_train = e.timer /\ e.ckpt_eval = e.timer
     /\ e.logger_kind = "WandBLogger"}

InitRender == \E f \in Flags, e \in RenderEnvs : Feasible(f, e) /\ InitWith(f, e)

SpecRender == InitRender /\ [][Next]_vars

\* ------------------------------------------------------------- properties
Count(e) == Cardinality({j \in 1..Len(events) : events[j] = e})

Happened(e) == \E j \in 1..Len(events) : events[j] = e

\* e1 happened, and before any e2
Before(e1, e2) ==
  \A j \in 1..Len(events) :
    events[j] = e2 => \E i \in 1..(j - 1) : events[i] = e1

MultipleOf3(n) == \E q \in 0..n : n = 3 * q

SixFlags ==
  {"save_training", "save_evaluation", "patience", "terminate_on_nan", "timer",
   "limit_sec"}

AnyOfSix == \E k \in SixFlags : it[k]

\* C1: an image batch is logged at an evaluator iteration exactly when the
\* handler is attached, the iteration is the middle one (len // 2) and the
\* trainer's epoch is a multiple of 3 or the last one.
C1_FilterExact ==
  LET wanted(e, i) ==
        /\ i = env.len_eval \div 2
        /\ MultipleOf3(e) \/ e = config.max_epochs
  IN /\ \A p \in img_log : wanted(p[1], p[2])
     /\ pc = "eval" =>
          \A i \in 1..evaluator.iteration :
            (<<trainer.epoch, i>> \in img_log) <=> (attached /\ wanted(trainer.epoch, i))

C1_Witness ==
  /\ pc = "eval"
  /\ <<trainer.epoch, 1>> \in img_log
  /\ trainer.epoch % 3 # 0
  /\ evaluator.iteration = 2
  /\ <<1, 1>> \notin img_log
  /\ trainer.epoch = 2

\* C2: in the evaluation run after the last training epoch the image handler
\* fires exactly once on rank 0, and in every evaluation run at most once.
C2_LoggedAtEnd ==
  /\ img_this_run <= 1
  /\ (pc = "handler_tail" /\ attached /\ trainer.epoch = config.max_epochs)
       => img_this_run = 1

\* C3: rank 0 shuts the experiment logger down by exactly one call after
\* trainer.run returned, finish() for WandB and close() for any other truthy
\* logger; other ranks neither create nor shut down a logger.
C3_Shutdown ==
  /\ Count("finish") + Count("close") <= 1
  /\ (Happened("finish") \/ Happened("close")) =>
       (rank = 0 /\ it.logger /\ Happened("trainer_returned"))
  /\ rank # 0 => (exp_logger = Unbound /\ ~Happened("setup_exp_logging"))
  /\ (it.logger /\ rank = 0 /\ Happened("run_returned")) =>
       /\ exp_logger = "WandBLogger" => (Count("finish") = 1 /\ Count("close") = 0)
       /\ exp_logger = "OtherLogger" => (Count("close") = 1 /\ Count("finish") = 0)

C3_Witness ==
  /\ pc = "done"
  /\ exp_logger = "OtherLogger"
  /\ Count("close") = 1

\* C4: setup_handlers, the timer report and the last-checkpoint block are
\* rendered exactly when one of the six flags is set, and setup_handlers gets
\* the training mapping iff save_training (else None) and the evaluation
\* mapping iff save_evaluation (else None).
C4_HandlersBlock ==
  script # <<>> =>
    /\ ("setup_handlers" \in Labels(script, "S")) <=> AnyOfSix
    /\ ("timer_report" \in Labels(script, "H")) <=> AnyOfSix
    /\ ("last_ckpt_train" \in Labels(script, "S")) <=> AnyOfSix
    /\ ("last_ckpt_eval" \in Labels(script, "S")) <=> AnyOfSix
    /\ Len(handlers_call) <= 1
    /\ Happened("trainer_run") => Len(handlers_call) = (IF AnyOfSix THEN 1 ELSE 0)
    /\ \A j \in 1..Len(handlers_call) :
         /\ handlers_call[j].to_save_train =
              (IF it.save_training
                 THEN {"model", "optimizer", "trainer", "lr_scheduler"} ELSE {None})
         /\ handlers_call[j].to_save_eval =
              (IF it.save_evaluation THEN {"model"} ELSE {None})

C4_Witness ==
  /\ pc = "done"
  /\ Len(handlers_call) = 1
  /\ it.save_training /\ ~it.save_evaluation /\ ~it.timer
  /\ handlers_call[1].to_save_eval = {None}

\* C5: Parallel gets the five multi-node parameters in spawn mode with
\* nproc_per_node, nnodes > 1, master_addr and master_port, nproc_per_node
\* alone in spawn mode with nproc_per_node otherwise, and the backend only for
\* any other dist; in these modes run is launched once, after download_datasets.
C5_LaunchMode ==
  LET multi == /\ it.nproc_per_node # NoProcs /\ it.nnodes >= 2
               /\ it.master_addr /\ it.master_port
      mode == IF it.dist # "spawn" THEN "pre-launched"
              ELSE IF multi THEN "multi-node"
              ELSE IF it.nproc_per_node # NoProcs THEN "single-node"
              ELSE "none"
      params == CASE mode = "multi-node" ->
                       {"backend", "nproc_per_node", "nnodes", "node_rank",
                        "master_addr", "master_port"}
                  [] mode = "single-node" -> {"backend", "nproc_per_node"}
                  [] OTHER -> {"backend"}
  IN /\ Len(parallel) <= 1
     /\ Count("run") = Len(parallel)
     /\ \A j \in 1..Len(parallel) : parallel[j] = params
     /\ Before("download_datasets", "run")
     /\ mode # "none" =>
          /\ err.kind # "NameError" \/ err.at # "kwargs"
          /\ pc = "done" => Len(parallel) = 1

C5_Witness ==
  /\ pc = "done"
  /\ Len(parallel) = 1
  /\ Cardinality(parallel[1]) = 6

\* C6: a process running run() writes config-lock.yaml exactly once, after
\* setup_output_dir and before trainer.run, so before any iteration.
C6_ConfigLock ==
  /\ Count("write_config_lock") <= 1
  /\ Before("setup_output_dir", "write_config_lock")
  /\ Before("write_config_lock", "trainer_run")
  /\ (trainer.iteration > 0 \/ evaluator.iteration > 0) =>
       Count("write_config_lock") = 1
  /\ Happened("run_returned") => Count("write_config_lock") = 1

C6_Witness ==
  /\ trainer.iteration > 0
  /\ rank = 1
  /\ Count("write_config_lock") = 1

\* C7: a failure of a delegated step leaves run() as raised: the script does
\* not go on, nothing it did before changes afterwards, and when trainer.run
\* fails the logger is not shut down and no last checkpoint name is logged.
C7_Propagates ==
  /\ [](err # NoErr => pc = "raised")
  /\ [](err.at = "trainer_run" =>
          /\ ~Happened("finish") /\ ~Happened("close")
          /\ ~Happened("last_ckpt_train") /\ ~Happened("last_ckpt_eval")
          /\ ~Happened("trainer_returned"))
  /\ [][err # NoErr => UNCHANGED vars]_vars

C7_Witness ==
  /\ pc = "raised"
  /\ err.at = "trainer_run"
  /\ rank = 0 /\ exp_logger = "WandBLogger"
  /\ ckpt_handler_train = Obj
  /\ trainer.epoch = 2

\* C8: the evaluator runs once before any training iteration and once after
\* each completed epoch (max_epochs + 1 runs when all epochs complete); in the
\* epoch-completed handler an existing timer is logged and reset before the
\* evaluation starts, and the metrics are logged right after it ends.
C8_EvalSchedule ==
  /\ trainer.iteration > 0 => eval_runs >= 1
  /\ pc = "epoch_started" => eval_runs = trainer.epoch + 1
  /\ pc = "iteration" => eval_runs = trainer.epoch
  /\ pc = "handler_tail" => eval_runs = trainer.epoch + 1
  /\ (Happened("trainer_returned") /\ ~terminated) => eval_runs = config.max_epochs + 1
  /\ Count("eval_start") \in {eval_runs, eval_runs + 1}
  /\ \A j \in 1..Len(events) :
       /\ events[j] = "epoch_completed" =>
            IF timer = Obj
              THEN /\ events[j + 1] = "timer_value"
                   /\ events[j + 2] = "timer_reset"
                   /\ events[j + 3] = "eval_start"
              ELSE events[j + 1] = "eval_start"
       /\ events[j] = "log_metrics_eval" => events[j - 1] = "eval_end"
       /\ events[j] = "eval_end" =>
            (j = Len(events) \/ events[j + 1] \in {"log_metrics_eval", "epoch_started"})

C8_Witness ==
  /\ pc = "done"
  /\ ~terminated
  /\ config.max_epochs = 3
  /\ eval_runs = 4
  /\ Count("timer_reset") = 3

\* C9: at the start of epoch e a DistributedSampler in a world of more than
\* one process gets set_epoch(e - 1), so it sees 0, 1, ... in order, once
\* each; otherwise the sampler is left alone.
C9_SamplerEpochs ==
  /\ IF env.world_size > 1 /\ env.sampler = "DistributedSampler"
       THEN sampler_epochs = [j \in 1..trainer.epoch |-> j - 1]
       ELSE sampler_epochs = <<>>
  /\ (Happened("trainer_returned") /\ ~terminated) => trainer.epoch = config.max_epochs

C9_Witness ==
  /\ pc = "done"
  /\ sampler_epochs = <<0, 1, 2>>

\* C10: no reachable execution of the rendered script reads a name that was
\* not assigned before on its path.
C10_NoUnbound == err.kind # "NameError"

====
